---- MODULE Spec2Model ----
(***************************************************************************)
(* Model of the evaluation core of the financial-onboarding pipeline:      *)
(* core/evaluation_generator.py (Evaluator, EvaluationAggregator).         *)
(*                                                                         *)
(* Python strings are sequences of one-character strings, so that lower(), *)
(* strip(), len(), the substring test `in` and the f-string path grammar   *)
(* are computed and not assumed.  A JSON value is a pair <<type, payload>>  *)
(* of its Python type and its content.  A dict is the sequence of its      *)
(* <<key, value>> items in insertion order (keys are unique).              *)
(* Python floats are modelled as exact rationals <<num, den>>.             *)
(***************************************************************************)
EXTENDS Integers, Sequences, FiniteSets, TLC

VARIABLES
    pc,                      \* position in the operation being modelled
    ground_truth,            \* Evaluator.generate: the record loaded from the ground-truth file
    extracted,               \* Evaluator.generate: the record loaded from the extracted file
    missing_fields,          \* the list the caller of _find_missing_fields holds
    processed_ground_truth,  \* the value _find_missing_fields returned
    aliased,                 \* TRUE iff processed_ground_truth is the caller's object itself
    evaluation,              \* what _evaluate_data returned (or the exception it raised)
    loaded,                  \* the record as it was before the last stripping call (history)
    value1, value2,          \* _compare_values: the two arguments
    oracle,                  \* what the equivalence collaborator does when it is asked
    compared,                \* _compare_values: its outcome
    conversations,           \* EvaluationAggregator: per conversation directory, its evaluation artifact
    aggregated,              \* EvaluationAggregator.generate: what it returned
    record, flattened,       \* _flatten_dict: its argument and the mapping it returned
    conversation_dirs,       \* the conversation_<n> directories of the experiment directory
    backup_dirs,             \* the conversation_<n>_backup_<timestamp> directories
    clock,                   \* datetime.now(), in seconds
    conversation_name,       \* per path manager, _conversation_name (NoName for None)
    outcome,                 \* what the last path-manager operation returned or raised
    program,                 \* main: the calls it still has to make, in order
    iteration,               \* run_conversation_pipeline: the iterations of its loop begun so far
    held,                    \* BaseGenerator.create: the value generate() returned to it
    files,                   \* the artifact files: path |-> content
    calls,                   \* the generate() calls made so far
    creates,                 \* the create() calls made so far
    events                   \* the calls made so far, in order

flattenVars == <<record, flattened>>
pathVars == <<conversation_dirs, backup_dirs, clock, conversation_name, outcome>>
mainVars == <<program, iteration, held, files, calls, creates, events>>
otherVars == <<flattenVars, pathVars, mainVars>>

vars == <<pc, ground_truth, extracted, missing_fields, processed_ground_truth, aliased,
          evaluation, loaded, value1, value2, oracle, compared, conversations, aggregated,
          otherVars>>

---------------------------------------------------------------------------
(* Strings *)

MISSING_FIELD ==
    <<"M","I","S","S","I","N","G"," ","I","N","F","O","R","M","A","T","I","O","N">>

UpperCase == <<"A","B","C","D","E","F","G","H","I","J","K","L","M",
               "N","O","P","Q","R","S","T","U","V","W","X","Y","Z">>
LowerCase == <<"a","b","c","d","e","f","g","h","i","j","k","l","m",
               "n","o","p","q","r","s","t","u","v","w","x","y","z">>
Whitespace == {" ", "\t", "\n", "\r"}

\* str.lower(), one character
LowerChar(c) ==
    IF \E i \in 1..26 : UpperCase[i] = c
    THEN LowerCase[CHOOSE i \in 1..26 : UpperCase[i] = c]
    ELSE c

\* a comparison that forgets lower()
LowerForgotten(s) == s

\* str.lower()
Lower(s) == [i \in 1..Len(s) |-> LowerChar(s[i])]

\* str.strip(): leading and trailing whitespace removed
RECURSIVE LStrip(_)
LStrip(s) == IF s # <<>> /\ Head(s) \in Whitespace THEN LStrip(Tail(s)) ELSE s
RECURSIVE RStrip(_)
RStrip(s) ==
    IF s # <<>> /\ s[Len(s)] \in Whitespace THEN RStrip(SubSeq(s, 1, Len(s) - 1)) ELSE s
Strip(s) == RStrip(LStrip(s))

\* Python's `sub in s` on two strings
Contains(s, sub) ==
    \E i \in 0..(Len(s) - Len(sub)) : SubSeq(s, i + 1, i + Len(sub)) = sub

\* str(i) for an integer i >= 0
Digit == <<"0","1","2","3","4","5","6","7","8","9">>
RECURSIVE IntToStr(_)
IntToStr(i) == IF i < 10 THEN <<Digit[i + 1]>> ELSE IntToStr(i \div 10) \o <<Digit[(i % 10) + 1]>>

---------------------------------------------------------------------------
(* JSON values *)

\* <<type, payload>>: the type comes first, so that two values of different types
\* differ by it and their payloads are never compared
StrV(s)  == <<"str", s>>
NumV(n)  == <<"num", n>>
BoolV(b) == <<"bool", b>>
NullV    == <<"null", 0>>
ListV(l) == <<"list", l>>
MapV(d)  == <<"map", d>>
TypeOf(x) == x[1]
ValOf(x) == x[2]

IsContainer(x) == TypeOf(x) \in {"map", "list"}

\* Python's `value == MISSING_FIELD`: only a str equal to the marker
EqMarker(x) == TypeOf(x) = "str" /\ ValOf(x) = MISSING_FIELD

(* dicts: sequences of <<key, value>> with unique keys, in insertion order *)
DictKeys(d) == {d[i][1] : i \in 1..Len(d)}
DictHas(d, k) == \E i \in 1..Len(d) : d[i][1] = k
DictGet(d, k) == d[CHOOSE i \in 1..Len(d) : d[i][1] = k][2]
\* d[k] = x: an existing key keeps its position
DictSet(d, k, x) ==
    IF DictHas(d, k)
    THEN [i \in 1..Len(d) |-> IF d[i][1] = k THEN <<k, x>> ELSE d[i]]
    ELSE Append(d, <<k, x>>)
\* dict(items)
RECURSIVE DictOf(_)
DictOf(items) ==
    IF items = <<>> THEN <<>>
    ELSE LET last == items[Len(items)]
         IN DictSet(DictOf(SubSeq(items, 1, Len(items) - 1)), last[1], last[2])
\* del d[k]
DictDel(d, k) == SelectSeq(d, LAMBDA it : it[1] # k)
\* the index taken as 1-based
ListDelOneBased(l, i) == SubSeq(l, 1, i - 1) \o SubSeq(l, i + 1, Len(l))
\* del l[i], i 0-based
ListDel(l, i) == SubSeq(l, 1, i) \o SubSeq(l, i + 2, Len(l))

---------------------------------------------------------------------------
(* Evaluator._flatten_dict *)

RECURSIVE flatten_items(_, _)
RECURSIVE flatten_list(_, _, _)

\* the dict the call returns
flatten_dict(d, parent_key) == DictOf(flatten_items(d, parent_key))

\* the `items` list built by the loop over d.items()
flatten_items(d, parent_key) ==
    IF d = <<>> THEN <<>>
    ELSE LET k == Head(d)[1]
             x == Head(d)[2]
             new_key == IF parent_key # <<>> THEN parent_key \o <<".">> \o k ELSE k
             here == IF TypeOf(x) = "map" THEN flatten_dict(ValOf(x), new_key)
                     ELSE IF TypeOf(x) = "list" THEN flatten_list(ValOf(x), new_key, 0)
                     ELSE << <<new_key, x>> >>
         IN here \o flatten_items(Tail(d), parent_key)

\* the inner loop over enumerate(v), from index i on: only dict items are recursed into
flatten_list(l, new_key, i) ==
    IF i >= Len(l) THEN <<>>
    ELSE LET item == l[i + 1]
             key == new_key \o <<"[">> \o IntToStr(i) \o <<"]">>
             here == IF TypeOf(item) = "map" THEN flatten_dict(ValOf(item), key)
                     ELSE << <<key, item>> >>
         IN here \o flatten_list(l, new_key, i + 1)

---------------------------------------------------------------------------
(* Evaluator._find_missing_fields *)

RECURSIVE find_missing_fields(_, _, _)
RECURSIVE fmf_dict_loop(_, _, _, _, _)
RECURSIVE fmf_list_loop(_, _, _, _, _)
RECURSIVE del_keys(_, _)
RECURSIVE del_indices(_, _)
RECURSIVE sorted_reverse(_)

\* only the first key deleted
del_keys_first(d, keys) == IF keys = <<>> THEN d ELSE DictDel(d, Head(keys))

\* for key in keys_to_delete: del data[key]
del_keys(d, keys) == IF keys = <<>> THEN d ELSE del_keys(DictDel(d, Head(keys)), Tail(keys))

\* reverse=True left out: the indices stay in ascending order
sorted_forward(s) == s

\* sorted(indices, reverse=True)
sorted_reverse(s) ==
    IF s = <<>> THEN <<>>
    ELSE LET m == CHOOSE i \in 1..Len(s) : \A j \in 1..Len(s) : s[j] <= s[i]
         IN <<s[m]>> \o sorted_reverse(SubSeq(s, 1, m - 1) \o SubSeq(s, m + 1, Len(s)))

\* for index in <order>: del data[index]
del_indices(l, order) ==
    IF order = <<>> THEN l ELSE del_indices(ListDel(l, Head(order)), Tail(order))

\* the loop over data.items(): i is the 1-based position of the next item
fmf_dict_loop(d, i, path, missing, keys_to_delete) ==
    IF i > Len(d) THEN [data |-> d, missing |-> missing, del |-> keys_to_delete]
    ELSE LET key == d[i][1]
             value == d[i][2]
             current_path == IF path # <<>> THEN path \o <<".">> \o key ELSE key
         IN IF IsContainer(value)
            THEN LET r == find_missing_fields(value, current_path, missing)
                 IN fmf_dict_loop([d EXCEPT ![i] = <<key, r.data>>], i + 1, path,
                                  r.missing, keys_to_delete)
            ELSE IF EqMarker(value)
            THEN fmf_dict_loop(d, i + 1, path, Append(missing, current_path),
                               Append(keys_to_delete, key))
            ELSE fmf_dict_loop(d, i + 1, path, missing, keys_to_delete)

\* the loop over enumerate(data): i is the 0-based index of the next item
fmf_list_loop(l, i, path, missing, indices_to_delete) ==
    IF i >= Len(l) THEN [data |-> l, missing |-> missing, del |-> indices_to_delete]
    ELSE LET item == l[i + 1]
             current_path == path \o <<"[">> \o IntToStr(i) \o <<"]">>
         IN IF IsContainer(item)
            THEN LET r == find_missing_fields(item, current_path, missing)
                 IN fmf_list_loop([l EXCEPT ![i + 1] = r.data], i + 1, path,
                                  r.missing, indices_to_delete)
            ELSE IF EqMarker(item)
            THEN fmf_list_loop(l, i + 1, path, Append(missing, current_path),
                               Append(indices_to_delete, i))
            ELSE fmf_list_loop(l, i + 1, path, missing, indices_to_delete)

\* the body after the optional deep copy: the (mutated) data and the list it appended to
find_missing_fields(data, path, missing) ==
    IF TypeOf(data) = "map"
    THEN LET r == fmf_dict_loop(ValOf(data), 1, path, missing, <<>>)
         IN [data |-> MapV(del_keys(r.data, r.del)), missing |-> r.missing]
    ELSE IF TypeOf(data) = "list"
    THEN LET r == fmf_list_loop(ValOf(data), 0, path, missing, <<>>)
         IN [data |-> ListV(del_indices(r.data, sorted_reverse(r.del))),
             missing |-> r.missing]
    ELSE [data |-> data, missing |-> missing]

---------------------------------------------------------------------------
(* Python's str(value) and repr(value), for the strings of this model      *)
(* (no quote, backslash or non-printable character in them)                *)

RECURSIVE PyRepr(_)
RECURSIVE JoinRepr(_)
RECURSIVE JoinItems(_)

\* ", ".join(repr(e) for e in l)
JoinRepr(l) ==
    IF l = <<>> THEN <<>>
    ELSE IF Len(l) = 1 THEN PyRepr(l[1])
    ELSE PyRepr(l[1]) \o <<",", " ">> \o JoinRepr(Tail(l))

\* ", ".join(repr(k) + ": " + repr(v) for k, v in d.items())
JoinItems(d) ==
    IF d = <<>> THEN <<>>
    ELSE LET one == <<"'">> \o d[1][1] \o <<"'", ":", " ">> \o PyRepr(d[1][2])
         IN IF Len(d) = 1 THEN one ELSE one \o <<",", " ">> \o JoinItems(Tail(d))

PyRepr(x) ==
    CASE TypeOf(x) = "str"  -> <<"'">> \o ValOf(x) \o <<"'">>
      [] TypeOf(x) = "num"  -> IntToStr(ValOf(x))
      [] TypeOf(x) = "bool" -> IF ValOf(x) THEN <<"T","r","u","e">> ELSE <<"F","a","l","s","e">>
      [] TypeOf(x) = "null" -> <<"N","o","n","e">>
      [] TypeOf(x) = "list" -> <<"[">> \o JoinRepr(ValOf(x)) \o <<"]">>
      [] TypeOf(x) = "map"  -> <<"{">> \o JoinItems(ValOf(x)) \o <<"}">>

PyStr(x) == IF TypeOf(x) = "str" THEN ValOf(x) ELSE PyRepr(x)

---------------------------------------------------------------------------
(* Evaluator._semantic_match and Evaluator._compare_values                 *)
(*                                                                         *)
(* The equivalence collaborator is a black box: `o` is what it does at the *)
(* one call a comparison may make, either a response text or a failure.    *)

OracleFails == [kind |-> "fail", text |-> <<>>]             \* the call raises or times out
OracleMalformed == [kind |-> "malformed", text |-> <<>>]    \* a response without a text
OracleSays(text) == [kind |-> "text", text |-> text]

\* abs() left out
AbsForgotten(n) == n
Abs(n) == IF n < 0 THEN -n ELSE n
Min(a, b) == IF a <= b THEN a ELSE b

\* an oracle failure taken for an agreement
semantic_match_fail_open(str1, str2, o) ==
    IF Abs(Len(str1) - Len(str2)) > 20 \/ Min(Len(str1), Len(str2)) < 3
    THEN [res |-> FALSE, asked |-> FALSE]
    ELSE IF o.kind = "fail"
    THEN [res |-> TRUE, asked |-> TRUE]
    ELSE IF o.kind = "malformed"
    THEN [res |-> TRUE, asked |-> TRUE]
    ELSE [res |-> Contains(Lower(Strip(o.text)), <<"y","e","s">>), asked |-> TRUE]

\* lines 248-275: [res, asked]; every exception of the call is caught
semantic_match(str1, str2, o) ==
    IF Abs(Len(str1) - Len(str2)) > 20 \/ Min(Len(str1), Len(str2)) < 3
    THEN [res |-> FALSE, asked |-> FALSE]
    ELSE IF o.kind = "fail"                      \* create() raises: except, line 272
    THEN [res |-> FALSE, asked |-> TRUE]
    ELSE IF o.kind = "malformed"                 \* output_text.strip() raises: except, line 272
    THEN [res |-> FALSE, asked |-> TRUE]
    ELSE [res |-> Contains(Lower(Strip(o.text)), <<"y","e","s">>), asked |-> TRUE]

\* `MISSING_FIELD in x` is defined for str (substring), list (membership) and dict (key)
IsIterable(x) == TypeOf(x) \in {"str", "list", "map"}
MarkerIn(x) ==
    CASE TypeOf(x) = "str"  -> Contains(ValOf(x), MISSING_FIELD)
      [] TypeOf(x) = "list" -> \E i \in 1..Len(ValOf(x)) : EqMarker(ValOf(x)[i])
      [] TypeOf(x) = "map"  -> DictHas(ValOf(x), MISSING_FIELD)
      [] OTHER        -> FALSE

Returned(b, asked) == [status |-> "returned", res |-> b, asked |-> asked]
Raised(e) == [status |-> e, res |-> FALSE, asked |-> FALSE]

\* the rule of line 296 left out
compare_values_no_one_sided_rule(v1, v2, o) ==
    IF TypeOf(v1) = "null" /\ TypeOf(v2) = "null" THEN Returned(TRUE, FALSE)
    ELSE IF TypeOf(v1) = "null" \/ TypeOf(v2) = "null" THEN Returned(FALSE, FALSE)
    ELSE IF ~IsIterable(v1) THEN Raised("TypeError")
    ELSE IF MarkerIn(v1) /\ ~IsIterable(v2) THEN Raised("TypeError")
    ELSE IF MarkerIn(v1) /\ MarkerIn(v2) THEN Returned(TRUE, FALSE)
    ELSE LET str1 == Strip(Lower(PyStr(v1)))
             str2 == Strip(Lower(PyStr(v2)))
         IN IF str1 = str2 THEN Returned(TRUE, FALSE)
            ELSE LET m == semantic_match(str1, str2, o)
                 IN Returned(m.res, m.asked)

\* lines 289-308
compare_values(v1, v2, o) ==
    IF TypeOf(v1) = "null" /\ TypeOf(v2) = "null" THEN Returned(TRUE, FALSE)
    ELSE IF TypeOf(v1) = "null" \/ TypeOf(v2) = "null" THEN Returned(FALSE, FALSE)
    ELSE IF ~IsIterable(v1) THEN Raised("TypeError")              \* line 294, left operand
    ELSE IF MarkerIn(v1) /\ ~IsIterable(v2) THEN Raised("TypeError")   \* line 294, right operand
    ELSE IF MarkerIn(v1) /\ MarkerIn(v2) THEN Returned(TRUE, FALSE)
    ELSE IF ~MarkerIn(v1) /\ ~IsIterable(v2) THEN Raised("TypeError")  \* line 296, right operand
    ELSE IF MarkerIn(v1) \/ MarkerIn(v2) THEN Returned(FALSE, FALSE)
    ELSE LET str1 == Strip(Lower(PyStr(v1)))
             str2 == Strip(Lower(PyStr(v2)))
         IN IF str1 = str2 THEN Returned(TRUE, FALSE)
            ELSE LET m == semantic_match(str1, str2, o)
                 IN Returned(m.res, m.asked)

---------------------------------------------------------------------------
(* Rationals <<num, den>> in lowest terms, den > 0, standing for the floats *)

RECURSIVE Gcd(_, _)
Gcd(a, b) == IF b = 0 THEN a ELSE Gcd(b, a % b)
Rat(n, d) == LET g == Gcd(n, d) IN IF n = 0 THEN <<0, 1>> ELSE <<n \div g, d \div g>>
Zero == Rat(0, 1)
RatAdd(x, y) == Rat(x[1] * y[2] + y[1] * x[2], x[2] * y[2])
RatMul(x, y) == Rat(x[1] * y[1], x[2] * y[2])
\* x / y, y > 0
RatDiv(x, y) == Rat(x[1] * y[2], x[2] * y[1])
RatPos(x) == x[1] > 0

---------------------------------------------------------------------------
(* Evaluator._calculate_metrics *)

NoError == "<no error key>"
FieldResult(gt, ex, match, category, error) ==
    [ground_truth |-> gt, extracted |-> ex, match |-> match, category |-> category,
     error |-> error]

CategoryNames == {"present", "extra", "missing"}

\* lines 339-361: one pass of the loop body over a field result
count_step_no_extra(result, c) ==
    LET category == result.category
        is_match == result.match
        c1 == IF category \in CategoryNames
              THEN [c EXCEPT !.total[category] = @ + 1,
                             !.matched[category] = IF is_match THEN @ + 1 ELSE @]
              ELSE c
    IN IF category = "present"
       THEN IF result.error = "missing_field"
            THEN [c1 EXCEPT !.false_negatives = @ + 1]
            ELSE IF is_match
            THEN [c1 EXCEPT !.true_positives = @ + 1]
            ELSE [c1 EXCEPT !.false_positives = @ + 1]
       ELSE c1

count_step(result, c) ==
    LET category == result.category
        is_match == result.match
        c1 == IF category \in CategoryNames
              THEN [c EXCEPT !.total[category] = @ + 1,
                             !.matched[category] = IF is_match THEN @ + 1 ELSE @]
              ELSE c
    IN IF category = "present"
       THEN IF result.error = "missing_field"
            THEN [c1 EXCEPT !.false_negatives = @ + 1]
            ELSE IF is_match
            THEN [c1 EXCEPT !.true_positives = @ + 1]
            ELSE [c1 EXCEPT !.false_positives = @ + 1]
       ELSE IF category = "extra"
       THEN [c1 EXCEPT !.false_positives = @ + 1]
       ELSE c1

\* lines 338-361: the counters after the loop over field_results.items()
RECURSIVE count_fields(_, _)
count_fields(field_results, c) ==
    IF field_results = <<>> THEN c
    ELSE count_fields(Tail(field_results), count_step(Head(field_results)[2], c))

ZeroCounters ==
    [true_positives |-> 0, false_positives |-> 0, false_negatives |-> 0,
     total   |-> [k \in CategoryNames |-> 0],
     matched |-> [k \in CategoryNames |-> 0]]

\* Python's n / d on numbers: ZeroDivisionError when d = 0
DivByZero == <<1, 0>>
Div(n, d) == IF d = 0 THEN DivByZero ELSE Rat(n, d)

RatioUnguarded(n, d) == Div(n, d)

\* lines 364, 365, 372, 380: `n / d if d > 0 else 0`
Ratio(n, d) == IF d > 0 THEN Div(n, d) ELSE Zero

\* the withheld fields counted among the fields judged
calculate_metrics_counting_missing(field_results, missing) ==
    LET c == count_fields(field_results, ZeroCounters)
        tp == c.true_positives
        fp == c.false_positives
        fn == c.false_negatives
        precision == Ratio(tp, tp + fp)
        recall == Ratio(tp, tp + fn)
        f1_score == IF RatPos(RatAdd(precision, recall))
                    THEN RatDiv(RatMul(Rat(2, 1), RatMul(precision, recall)),
                                RatAdd(precision, recall))
                    ELSE Zero
        total_judgments == tp + fp + fn + Len(missing)
        accuracy == Ratio(tp, total_judgments)
        accuracies == [k \in CategoryNames |-> Ratio(c.matched[k], c.total[k])]
        divisions == {precision, recall, accuracy} \cup {accuracies[k] : k \in CategoryNames}
    IN [status |-> IF DivByZero \in divisions THEN "ZeroDivisionError" ELSE "returned",
        overall_accuracy |-> accuracy,
        precision |-> precision,
        recall |-> recall,
        f1_score |-> f1_score,
        true_positives |-> tp,
        false_positives |-> fp,
        false_negatives |-> fn,
        total_fields |-> c.total["present"] + c.total["extra"] + c.total["missing"],
        missing_fields_count |-> Len(missing),
        categories |-> [k \in CategoryNames |->
                            [total |-> c.total[k], matched |-> c.matched[k],
                             accuracy |-> accuracies[k]]]]

\* lines 325-397
calculate_metrics(field_results, missing) ==
    LET c == count_fields(field_results, ZeroCounters)
        tp == c.true_positives
        fp == c.false_positives
        fn == c.false_negatives
        precision == Ratio(tp, tp + fp)
        recall == Ratio(tp, tp + fn)
        f1_score == IF RatPos(RatAdd(precision, recall))
                    THEN RatDiv(RatMul(Rat(2, 1), RatMul(precision, recall)),
                                RatAdd(precision, recall))
                    ELSE Zero
        total_judgments == tp + fp + fn
        accuracy == Ratio(tp, total_judgments)
        accuracies == [k \in CategoryNames |-> Ratio(c.matched[k], c.total[k])]
        divisions == {precision, recall, accuracy} \cup {accuracies[k] : k \in CategoryNames}
    IN [status |-> IF DivByZero \in divisions THEN "ZeroDivisionError" ELSE "returned",
        overall_accuracy |-> accuracy,
        precision |-> precision,
        recall |-> recall,
        f1_score |-> f1_score,
        true_positives |-> tp,
        false_positives |-> fp,
        false_negatives |-> fn,
        total_fields |-> c.total["present"] + c.total["extra"] + c.total["missing"],
        missing_fields_count |-> Len(missing),
        categories |-> [k \in CategoryNames |->
                            [total |-> c.total[k], matched |-> c.matched[k],
                             accuracy |-> accuracies[k]]]]

---------------------------------------------------------------------------
(* Evaluator._evaluate_data *)
(*                                                                         *)
(* `answers` is what the equivalence collaborator does at its successive   *)
(* calls during this evaluation; `asked` counts the calls made so far.     *)

NextAnswer(answers, asked) == IF asked < Len(answers) THEN answers[asked + 1] ELSE OracleFails

\* lines 151-173: the loop over flat_ground_truth.items(), from item i on
RECURSIVE present_loop(_, _, _, _, _, _)
present_loop(flat_ground_truth, flat_extracted, i, field_results, answers, asked) ==
    IF i > Len(flat_ground_truth)
    THEN [status |-> "returned", field_results |-> field_results, asked |-> asked]
    ELSE LET field == flat_ground_truth[i][1]
             truth_value == flat_ground_truth[i][2]
         IN IF DictHas(flat_extracted, field)
            THEN LET extracted_value == DictGet(flat_extracted, field)
                     cmp == compare_values(truth_value, extracted_value,
                                           NextAnswer(answers, asked))
                 IN IF cmp.status # "returned"
                    THEN [status |-> cmp.status, field_results |-> field_results,
                          asked |-> asked]
                    ELSE present_loop(flat_ground_truth, flat_extracted, i + 1,
                             DictSet(field_results, field,
                                 FieldResult(truth_value, extracted_value, cmp.res,
                                             "present", NoError)),
                             answers, IF cmp.asked THEN asked + 1 ELSE asked)
            ELSE present_loop(flat_ground_truth, flat_extracted, i + 1,
                     DictSet(field_results, field,
                         FieldResult(truth_value, NullV, FALSE, "present", "missing_field")),
                     answers, asked)

\* line 180: the test that excuses an extracted-only field
IsMissingValue(x) == EqMarker(x)

\* lines 176-194: the loop over flat_extracted, from item i on
RECURSIVE extra_loop(_, _, _, _)
extra_loop(flat_ground_truth, flat_extracted, i, field_results) ==
    IF i > Len(flat_extracted) THEN field_results
    ELSE LET field == flat_extracted[i][1]
             x == flat_extracted[i][2]
             fr == IF DictHas(flat_ground_truth, field) THEN field_results
                   ELSE IF IsMissingValue(x)
                   THEN DictSet(field_results, field,
                            FieldResult(StrV(MISSING_FIELD), x, TRUE, "missing", NoError))
                   ELSE DictSet(field_results, field,
                            FieldResult(NullV, x, FALSE, "extra", "extra_field"))
         IN extra_loop(flat_ground_truth, flat_extracted, i + 1, fr)

NoMetrics == [status |-> "none"]

\* an exception in _calculate_metrics leaves _evaluate_data too
EvaluationStatus(metrics) == metrics.status

\* lines 140-206: the evaluation returned, or the exception that left the call
evaluate_data(gt, ex, missing, answers) ==
    LET flat_ground_truth == flatten_dict(ValOf(gt), <<>>)
        flat_extracted == flatten_dict(ValOf(ex), <<>>)
        p == present_loop(flat_ground_truth, flat_extracted, 1, <<>>, answers, 0)
    IN IF p.status # "returned"
       THEN [status |-> p.status, metrics |-> NoMetrics, field_results |-> <<>>,
             missing_fields |-> <<>>, asked |-> p.asked]
       ELSE LET field_results == extra_loop(flat_ground_truth, flat_extracted, 1,
                                            p.field_results)
            IN [status |-> EvaluationStatus(calculate_metrics(field_results, missing)),
                metrics |-> calculate_metrics(field_results, missing),
                field_results |-> field_results,
                missing_fields |-> missing,
                asked |-> p.asked]

---------------------------------------------------------------------------
(* The call of Evaluator._find_missing_fields, lines 76-121                *)

None == <<"None", 0>>

\* `arg` is the missing_fields argument: None (the default) or the caller's list.
\* returned: the value returned; argument: the caller's `data` object after the
\* call; list: the caller's list after the call; same: returned is the very
\* object that was passed in (no deep copy was made, lines 89-91).
find_missing_fields_call(data, arg) ==
    IF arg = None
    THEN LET r == find_missing_fields(data, <<>>, <<>>)      \* works on copy.deepcopy(data)
         IN [returned |-> r.data, argument |-> data, list |-> None, same |-> FALSE]
    ELSE LET r == find_missing_fields(data, <<>>, ValOf(arg))     \* works on data itself
         IN [returned |-> r.data, argument |-> r.data, list |-> ListV(r.missing),
             same |-> TRUE]

---------------------------------------------------------------------------
(* ConversationGenerator.process_ground_truth and its _find_missing_fields *)
(* (src/core/conversation_generator.py): the same walk, made in place on   *)
(* the deep copy, and returning the list of paths                          *)

RECURSIVE cg_find_missing_fields(_, _, _)
RECURSIVE cg_dict_loop(_, _, _, _, _)
RECURSIVE cg_list_loop(_, _, _, _, _)

\* the path of a root key built with the separator in front
RECURSIVE cg_dict_loop_dotted(_, _, _, _, _)
cg_dict_loop_dotted(d, i, path, missing, keys_to_delete) ==
    IF i > Len(d) THEN [data |-> d, missing |-> missing, del |-> keys_to_delete]
    ELSE LET key == d[i][1]
             value == d[i][2]
             current_path == path \o <<".">> \o key
         IN IF IsContainer(value)
            THEN LET r == cg_find_missing_fields(value, current_path, missing)
                 IN cg_dict_loop_dotted([d EXCEPT ![i] = <<key, r.data>>], i + 1, path,
                                        r.missing, keys_to_delete)
            ELSE IF EqMarker(value)
            THEN cg_dict_loop_dotted(d, i + 1, path, Append(missing, current_path),
                                     Append(keys_to_delete, key))
            ELSE cg_dict_loop_dotted(d, i + 1, path, missing, keys_to_delete)

\* lines 108-114, the loop over data.items()
cg_dict_loop(d, i, path, missing, keys_to_delete) ==
    IF i > Len(d) THEN [data |-> d, missing |-> missing, del |-> keys_to_delete]
    ELSE LET key == d[i][1]
             value == d[i][2]
             current_path == IF path # <<>> THEN path \o <<".">> \o key ELSE key
         IN IF IsContainer(value)
            THEN LET r == cg_find_missing_fields(value, current_path, missing)
                 IN cg_dict_loop([d EXCEPT ![i] = <<key, r.data>>], i + 1, path,
                                 r.missing, keys_to_delete)
            ELSE IF EqMarker(value)
            THEN cg_dict_loop(d, i + 1, path, Append(missing, current_path),
                              Append(keys_to_delete, key))
            ELSE cg_dict_loop(d, i + 1, path, missing, keys_to_delete)

\* lines 126-132, the loop over enumerate(data)
cg_list_loop(l, i, path, missing, indices_to_delete) ==
    IF i >= Len(l) THEN [data |-> l, missing |-> missing, del |-> indices_to_delete]
    ELSE LET item == l[i + 1]
             current_path == path \o <<"[">> \o IntToStr(i) \o <<"]">>
         IN IF IsContainer(item)
            THEN LET r == cg_find_missing_fields(item, current_path, missing)
                 IN cg_list_loop([l EXCEPT ![i + 1] = r.data], i + 1, path,
                                 r.missing, indices_to_delete)
            ELSE IF EqMarker(item)
            THEN cg_list_loop(l, i + 1, path, Append(missing, current_path),
                              Append(indices_to_delete, i))
            ELSE cg_list_loop(l, i + 1, path, missing, indices_to_delete)

\* lines 90-138: data is the object after the call, missing the list returned
cg_find_missing_fields(data, path, missing) ==
    IF TypeOf(data) = "map"
    THEN LET r == cg_dict_loop(ValOf(data), 1, path, missing, <<>>)
         IN [data |-> MapV(del_keys(r.data, r.del)), missing |-> r.missing]
    ELSE IF TypeOf(data) = "list"
    THEN LET r == cg_list_loop(ValOf(data), 0, path, missing, <<>>)
         IN [data |-> ListV(del_indices(r.data, sorted_reverse(r.del))),
             missing |-> r.missing]
    ELSE [data |-> data, missing |-> missing]

\* lines 72-88: the walk runs on copy.deepcopy(ground_truth); the caller's record
\* stays as it was
process_ground_truth(gt) ==
    LET r == cg_find_missing_fields(gt, <<>>, <<>>)
    IN [processed_gt |-> r.data, missing_fields |-> r.missing, ground_truth |-> gt]

---------------------------------------------------------------------------
(* Bounded inputs *)

MaxLen == 2        \* longest sequence inside a generated record

ka == <<"a">>
kb == <<"b">>
SM  == StrV(MISSING_FIELD)
SMD == StrV(MISSING_FIELD \o <<".">>)        \* contains the marker, is not the marker
SA  == StrV(<<"a","b","c">>)
SB  == StrV(<<" ","A","B","C">>)             \* equal to SA after lower().strip()
SD  == StrV(<<"a","b","d">>)                 \* differs from SA, long enough for the oracle
N5  == NumV(5)

Absent == <<"absent", 0>>

SeqsUpTo(S, n) == UNION {[1..k -> S] : k \in 0..n}

\* a record with keys a, b (either may be absent)
RecordOf(x, y) ==
    MapV((IF x = Absent THEN <<>> ELSE << <<ka, x>> >>) \o
         (IF y = Absent THEN <<>> ELSE << <<kb, y>> >>))

GtElems == {SM, SA, ListV(<<SM>>), MapV(<< <<kb, SM>> >>)}
\* sequences with the marker at several indices
SeveralMarkers == {ListV(<<SM, SM, SA>>), ListV(<<SM, SD, SM>>)}
GtValuesA ==
    {SM, SA, N5, NullV}
      \cup SeveralMarkers
      \cup {ListV(l) : l \in SeqsUpTo(GtElems, MaxLen)}
      \cup {MapV(<< <<kb, x>> >>) : x \in {SM, SA}}
GtValuesB == {SM, SA, N5}
GroundTruths == {RecordOf(x, y) : x \in GtValuesA \cup {Absent}, y \in GtValuesB \cup {Absent}}

ExElems == {SM, SA, SD}
ExValuesA ==
    {SM, SMD, SA, SB, SD, N5, NullV}
      \cup {ListV(l) : l \in SeqsUpTo(ExElems, MaxLen)}
      \cup {MapV(<< <<kb, x>> >>) : x \in {SM, SD}}
ExValuesB == {SM, SB}
Extracteds == {RecordOf(x, y) : x \in ExValuesA \cup {Absent}, y \in ExValuesB \cup {Absent}}

\* the scenario of the documentation: Jane Doe
kname   == <<"n","a","m","e">>
kincome == <<"i","n","c","o","m","e">>
kphone  == <<"p","h","o","n","e">>
ScenarioGT ==
    MapV(<< <<kname, StrV(<<"J","a","n","e"," ","D","o","e">>)>>,
            <<kincome, StrV(<<"5","0","0","0","0">>)>>,
            <<kphone, SM>> >>)
ScenarioEX ==
    MapV(<< <<kname, StrV(<<"j","a","n","e"," ","d","o","e">>)>>,
            <<kincome, StrV(<<"5","0","5","0","0">>)>>,
            <<kphone, SM>> >>)

Yes == OracleSays(<<"Y","E","S">>)
No  == OracleSays(<<"N","O">>)
Responses == {Yes, No, OracleFails, OracleMalformed}

---------------------------------------------------------------------------
(* Evaluator.generate, lines 26-56 *)

NoEvaluation ==
    [status |-> "none", metrics |-> NoMetrics, field_results |-> <<>>,
     missing_fields |-> <<>>, asked |-> 0]
NoComparison == [status |-> "none", res |-> FALSE, asked |-> FALSE]
NoAggregate ==
    [status |-> "none", value |-> "none", total_conversations |-> 0,
     aggregated_metrics |-> <<>>]

IdleFlattener == record = NullV /\ flattened = <<>>
\* _conversation_name = None (line 35)
NoName == 0
NoOutcome == [op |-> "none", value |-> 0]
Managers == {1, 2}
IdlePaths ==
    /\ conversation_dirs = {}
    /\ backup_dirs = {}
    /\ clock = 0
    /\ conversation_name = [m \in Managers |-> NoName]
    /\ outcome = NoOutcome
\* a value of the pipeline: who made it, in which generate() call, from which input
Value(by, call, from) == [by |-> by, call |-> call, from |-> from]
NotHeld == Value("nothing", 0, 0)
IdleMain ==
    /\ program = <<>>
    /\ iteration = 0
    /\ held = NotHeld
    /\ files = <<>>
    /\ calls = 0
    /\ creates = 0
    /\ events = <<>>
IdleOthers == IdleFlattener /\ IdlePaths /\ IdleMain
IdleCompare == value1 = NullV /\ value2 = NullV /\ compared = NoComparison
IdleAggregator == conversations = <<>> /\ aggregated = NoAggregate
IdleEvaluator ==
    /\ ground_truth = NullV /\ extracted = NullV /\ loaded = NullV
    /\ missing_fields = None /\ processed_ground_truth = NullV /\ aliased = FALSE
    /\ evaluation = NoEvaluation

\* lines 34-41: both files are loaded
Init ==
    /\ pc = "loaded"
    /\ IdleOthers
    /\ \/ ground_truth \in GroundTruths /\ extracted \in Extracteds
       \/ ground_truth = ScenarioGT /\ extracted = ScenarioEX
    /\ loaded = ground_truth
    /\ missing_fields = None
    /\ processed_ground_truth = NullV
    /\ aliased = FALSE
    /\ evaluation = NoEvaluation
    /\ oracle = <<>>
    /\ IdleCompare
    /\ IdleAggregator

\* lines 46-47: missing_fields = []; _find_missing_fields(ground_truth, missing_fields=missing_fields)
GenerateStrip ==
    /\ pc = "loaded"
    /\ LET c == find_missing_fields_call(ground_truth, ListV(<<>>))
       IN /\ ground_truth' = c.argument
          /\ processed_ground_truth' = c.returned
          /\ missing_fields' = c.list
          /\ aliased' = c.same
    /\ pc' = "stripped"
    /\ UNCHANGED <<extracted, evaluation, loaded, value1, value2, oracle, compared,
                   conversations, aggregated>>
    /\ UNCHANGED otherVars

\* a call with the default arguments: _find_missing_fields(ground_truth)
StripDefault ==
    /\ pc = "loaded"
    /\ LET c == find_missing_fields_call(ground_truth, None)
       IN /\ ground_truth' = c.argument
          /\ processed_ground_truth' = c.returned
          /\ missing_fields' = c.list
          /\ aliased' = c.same
    /\ pc' = "copied"
    /\ UNCHANGED <<extracted, evaluation, loaded, value1, value2, oracle, compared,
                   conversations, aggregated>>
    /\ UNCHANGED otherVars

\* lines 50-56: _evaluate_data(processed_ground_truth, extracted, missing_fields)
GenerateEvaluate ==
    /\ pc = "stripped"
    /\ LET n == evaluate_data(processed_ground_truth, extracted, ValOf(missing_fields), <<>>).asked
       IN \E answers \in [1..n -> Responses] :
            /\ evaluation' = evaluate_data(processed_ground_truth, extracted,
                                           ValOf(missing_fields), answers)
            /\ oracle' = answers
    /\ pc' = "evaluated"
    /\ UNCHANGED <<ground_truth, extracted, missing_fields, processed_ground_truth, aliased,
                   loaded, value1, value2, compared, conversations, aggregated>>
    /\ UNCHANGED otherVars

\* the stripper of Evaluator called once more, on the record it returned
StripCleaned ==
    /\ pc = "stripped"
    /\ LET c == find_missing_fields_call(processed_ground_truth, ListV(<<>>))
       IN /\ ground_truth' = c.argument
          /\ processed_ground_truth' = c.returned
          /\ missing_fields' = c.list
          /\ aliased' = c.same
    /\ loaded' = processed_ground_truth
    /\ pc' = "restripped"
    /\ UNCHANGED <<extracted, evaluation, value1, value2, oracle, compared,
                   conversations, aggregated>>
    /\ UNCHANGED otherVars

\* ConversationGenerator.process_ground_truth(ground_truth)
ProcessGroundTruth ==
    /\ pc = "loaded"
    /\ LET r == process_ground_truth(ground_truth)
       IN /\ ground_truth' = r.ground_truth
          /\ processed_ground_truth' = r.processed_gt
          /\ missing_fields' = ListV(r.missing_fields)
    /\ aliased' = FALSE
    /\ pc' = "processed"
    /\ UNCHANGED <<extracted, evaluation, loaded, value1, value2, oracle, compared,
                   conversations, aggregated>>
    /\ UNCHANGED otherVars

\* process_ground_truth called once more, on the record it returned
ProcessCleaned ==
    /\ pc = "processed"
    /\ LET r == process_ground_truth(processed_ground_truth)
       IN /\ ground_truth' = r.ground_truth
          /\ processed_ground_truth' = r.processed_gt
          /\ missing_fields' = ListV(r.missing_fields)
    /\ loaded' = processed_ground_truth
    /\ aliased' = FALSE
    /\ pc' = "reprocessed"
    /\ UNCHANGED <<extracted, evaluation, value1, value2, oracle, compared,
                   conversations, aggregated>>
    /\ UNCHANGED otherVars

Next ==
    \/ GenerateStrip
    \/ StripDefault
    \/ GenerateEvaluate
    \/ StripCleaned
    \/ ProcessGroundTruth
    \/ ProcessCleaned

Spec == Init /\ [][Next]_vars

---------------------------------------------------------------------------
(* Claims about Evaluator.generate and its parts, checked under Spec       *)

Evaluated == pc = "evaluated"
EvalReturned == pc = "evaluated" /\ evaluation.status = "returned"
FlatTruth == flatten_dict(ValOf(processed_ground_truth), <<>>)
FlatExtracted == flatten_dict(ValOf(extracted), <<>>)
Results == evaluation.field_results
ResultsOf(cats) ==
    {Results[i][1] : i \in {j \in 1..Len(Results) : Results[j][2].category \in cats}}
CountResults(P(_)) == Cardinality({i \in 1..Len(Results) : P(Results[i][2])})

\* the partition of the union of both field sets by the results of one evaluation
PartitionHolds ==
    /\ Len(Results) = Cardinality(DictKeys(Results))
    /\ DictKeys(Results) = DictKeys(FlatTruth) \cup DictKeys(FlatExtracted)
    /\ \A i \in 1..Len(Results) : Results[i][2].category \in CategoryNames
    /\ ResultsOf({"present"}) = DictKeys(FlatTruth)
    /\ ResultsOf({"extra", "missing"}) = DictKeys(FlatExtracted) \ DictKeys(FlatTruth)

\* C1: for every pair of records the reconciler returns one field result per canonical
\* path of the union of both flat maps and none for any other path; the categories are
\* present, extra or missing; the present results are the ground-truth paths and the
\* extra and missing results are the paths found only in the extracted record.
C1_PartitionForEveryPair ==
    Evaluated => evaluation.status = "returned" /\ PartitionHolds

\* what remains of C1 where _compare_values does not raise
C1_PartitionWhenReturned == EvalReturned => PartitionHolds

\* C2: the stripper never mutates the caller's record, however it is invoked: after the
\* call the record passed in equals what it was before, and the cleaned record is an
\* independent copy.
C2_CallerRecordUntouched ==
    pc \in {"stripped", "copied", "evaluated"} =>
        /\ ground_truth = loaded
        /\ processed_ground_truth # loaded => ~aliased

\* the default-argument call alone keeps the caller's record
C2_DefaultCallCopies == pc = "copied" => ground_truth = loaded /\ ~aliased

\* C3: for every path only in the extracted flat map: if the string form of the value
\* contains the marker the result is missing, match true, ground truth recorded as the
\* marker; otherwise it is extra, match false, error tag extra_field.
C3_MarkerSubstringExcused ==
    EvalReturned =>
        \A i \in 1..Len(FlatExtracted) :
            LET field == FlatExtracted[i][1]
                x == FlatExtracted[i][2]
                r == DictGet(Results, field)
            IN ~DictHas(FlatTruth, field) =>
                 IF Contains(PyStr(x), MISSING_FIELD)
                 THEN r.category = "missing" /\ r.match /\ r.ground_truth = SM
                 ELSE r.category = "extra" /\ ~r.match /\ r.error = "extra_field"

\* what the code does at line 180: equality with the marker
C3_MarkerEqualityExcused ==
    EvalReturned =>
        \A i \in 1..Len(FlatExtracted) :
            LET field == FlatExtracted[i][1]
                x == FlatExtracted[i][2]
                r == DictGet(Results, field)
            IN ~DictHas(FlatTruth, field) =>
                 IF x = SM
                 THEN r.category = "missing" /\ r.match /\ r.ground_truth = SM
                 ELSE r.category = "extra" /\ ~r.match /\ r.error = "extra_field"

Stripped == pc = "stripped"
MissingPaths == {ValOf(missing_fields)[i] : i \in 1..Len(ValOf(missing_fields))}

\* C5: no path of missing_paths is a key of flatten(cleaned), also when the marker was
\* an element of a sequence that has other elements after it.
C5_StrippedPathsNotInFlatTruth ==
    Stripped => \A p \in MissingPaths : ~DictHas(FlatTruth, p)

\* C6: the path the stripper records for a marker leaf is the key under which the
\* flattener stores that leaf of the unstripped record, under maps, under sequences
\* and under sequences nested directly inside sequences.
C6_SamePathGrammar ==
    Stripped =>
        LET flat == flatten_dict(ValOf(loaded), <<>>)
        IN \A p \in MissingPaths : DictHas(flat, p) /\ EqMarker(DictGet(flat, p))

\* C7: true_positives counts the present results with match = true and no error tag,
\* false_negatives the present results tagged missing_field, false_positives the
\* present results with match = false and no missing_field tag plus the extra results;
\* missing-category results add to none of the three.
PresentMatched(r) == r.category = "present" /\ r.match /\ r.error = NoError
PresentNotExtracted(r) == r.category = "present" /\ r.error = "missing_field"
PresentWrong(r) == r.category = "present" /\ ~r.match /\ r.error # "missing_field"
IsExtra(r) == r.category = "extra"
IsMissing(r) == r.category = "missing"
C7_Counters ==
    EvalReturned =>
        /\ evaluation.metrics.true_positives = CountResults(PresentMatched)
        /\ evaluation.metrics.false_negatives = CountResults(PresentNotExtracted)
        /\ evaluation.metrics.false_positives =
               CountResults(PresentWrong) + CountResults(IsExtra)
        /\ evaluation.metrics.true_positives + evaluation.metrics.false_negatives
             + evaluation.metrics.false_positives + CountResults(IsMissing)
               = Len(Results)

C7_Witness ==
    /\ EvalReturned
    /\ CountResults(PresentMatched) > 0
    /\ CountResults(PresentNotExtracted) > 0
    /\ CountResults(IsExtra) > 0
    /\ CountResults(IsMissing) > 0

\* x = n / d, for d > 0, without dividing
IsQuotient(x, n, d) == x[2] > 0 /\ x[1] * d = n * x[2]
RatioIs(x, n, d) == IF d > 0 THEN IsQuotient(x, n, d) ELSE x = Zero

\* C8: the scorer never raises; precision = tp/(tp+fp), recall = tp/(tp+fn),
\* f1 = 2*precision*recall/(precision+recall), overall_accuracy = tp/(tp+fp+fn), each
\* category accuracy = matched/total, each 0 when its denominator is 0; the empty
\* mapping scores precision = recall = f1 = overall_accuracy = 0.
C8_Ratios ==
    Evaluated /\ evaluation.status \in {"returned", "ZeroDivisionError"} =>
        LET m == evaluation.metrics
            tp == CountResults(PresentMatched)
            fn == CountResults(PresentNotExtracted)
            fp == CountResults(PresentWrong) + CountResults(IsExtra)
            p == m.precision
            r == m.recall
        IN /\ evaluation.status = "returned"
           /\ RatioIs(p, tp, tp + fp)
           /\ RatioIs(r, tp, tp + fn)
           /\ RatioIs(m.overall_accuracy, tp, tp + fp + fn)
           \* f1 * (p + r) = 2 * p * r, over the common denominator
           /\ IF p[1] > 0 \/ r[1] > 0
              THEN /\ m.f1_score[2] > 0
                   /\ m.f1_score[1] * (p[1] * r[2] + r[1] * p[2]) = 2 * p[1] * r[1] * m.f1_score[2]
              ELSE m.f1_score = Zero
           /\ \A k \in CategoryNames :
                 RatioIs(m.categories[k].accuracy,
                         Cardinality({i \in 1..Len(Results) :
                             Results[i][2].category = k /\ Results[i][2].match}),
                         Cardinality({i \in 1..Len(Results) : Results[i][2].category = k}))
           /\ Results = <<>> =>
                 m.precision = Zero /\ m.recall = Zero /\ m.f1_score = Zero
                   /\ m.overall_accuracy = Zero

C8_Witness ==
    /\ EvalReturned
    /\ Results = <<>>
    /\ evaluation.metrics.precision = Zero
    /\ evaluation.metrics.f1_score = Zero

\* C9: the documented scenario: the ground truth is stripped to {name, income} with
\* missing_paths = [phone]; with an oracle answering "not equivalent" the results are
\* name present/true, income present/false, phone missing/true and the metrics
\* tp = 1, fp = 1, fn = 0, precision 1/2, recall 1, f1 2/3, accuracy 1/2, 1 missing field.
ScenarioRun == loaded = ScenarioGT /\ extracted = ScenarioEX
C9_Scenario ==
    /\ ScenarioRun /\ pc \in {"stripped", "evaluated"} =>
          /\ DictKeys(ValOf(processed_ground_truth)) = {kname, kincome}
          /\ DictGet(ValOf(processed_ground_truth), kname) = DictGet(ValOf(ScenarioGT), kname)
          /\ DictGet(ValOf(processed_ground_truth), kincome) = DictGet(ValOf(ScenarioGT), kincome)
          /\ ValOf(missing_fields) = <<kphone>>
    /\ ScenarioRun /\ Evaluated /\ (\A i \in 1..Len(oracle) : oracle[i] = No) =>
          LET m == evaluation.metrics
              R(k) == DictGet(Results, k)
          IN /\ evaluation.status = "returned"
             /\ DictKeys(Results) = {kname, kincome, kphone}
             /\ R(kname).category = "present" /\ R(kname).match
             /\ R(kincome).category = "present" /\ ~R(kincome).match
             /\ R(kphone).category = "missing" /\ R(kphone).match
             /\ m.true_positives = 1 /\ m.false_positives = 1 /\ m.false_negatives = 0
             /\ m.precision = <<1, 2>> /\ m.recall = <<1, 1>> /\ m.f1_score = <<2, 3>>
             /\ m.overall_accuracy = <<1, 2>> /\ m.missing_fields_count = 1

C9_Witness == ScenarioRun /\ Evaluated /\ oracle = <<No>> /\ evaluation.asked = 1

---------------------------------------------------------------------------
(* Claims about the flattener and the two strippers, checked under Spec    *)

IsLeafScalar(x) == TypeOf(x) \in {"str", "num", "bool", "null"}

\* C14: every value of flatten(record) is a scalar: maps and sequences at any depth,
\* also a sequence that is an element of a sequence, are recursed into and never
\* stored as a leaf.
C14_FlatValuesAreScalars ==
    Evaluated =>
        /\ \A i \in 1..Len(FlatTruth) : IsLeafScalar(FlatTruth[i][2])
        /\ \A i \in 1..Len(FlatExtracted) : IsLeafScalar(FlatExtracted[i][2])

\* what the code does: sequences under map keys and maps inside sequences are
\* recursed into; a sequence inside a sequence is stored whole
C14_OnlyNestedSequencesStored ==
    Evaluated =>
        \A i \in 1..Len(FlatTruth) :
            IsLeafScalar(FlatTruth[i][2]) \/ TypeOf(FlatTruth[i][2]) = "list"

\* the record without its marker leaves, and the paths of its marker leaves in
\* document order (parent.key, key at the root, parent[i] with i 0-based), both
\* written down without any deletion by index
RECURSIVE WithoutMarkers(_)
RECURSIVE KeptItems(_)
RECURSIVE KeptElems(_)
RECURSIVE MarkerPaths(_, _)
RECURSIVE MarkerPathsOfItems(_, _)
RECURSIVE MarkerPathsOfElems(_, _, _)
KeptItems(d) ==
    IF d = <<>> THEN <<>>
    ELSE (IF EqMarker(Head(d)[2]) THEN <<>>
          ELSE << <<Head(d)[1], WithoutMarkers(Head(d)[2])>> >>) \o KeptItems(Tail(d))
KeptElems(l) ==
    IF l = <<>> THEN <<>>
    ELSE (IF EqMarker(Head(l)) THEN <<>> ELSE <<WithoutMarkers(Head(l))>>)
             \o KeptElems(Tail(l))
WithoutMarkers(x) ==
    CASE TypeOf(x) = "map"  -> MapV(KeptItems(ValOf(x)))
      [] TypeOf(x) = "list" -> ListV(KeptElems(ValOf(x)))
      [] OTHER -> x
PathsAt(x, p) ==
    IF EqMarker(x) THEN <<p>> ELSE IF IsContainer(x) THEN MarkerPaths(x, p) ELSE <<>>
MarkerPathsOfItems(d, path) ==
    IF d = <<>> THEN <<>>
    ELSE PathsAt(Head(d)[2], IF path = <<>> THEN Head(d)[1]
                                            ELSE path \o <<".">> \o Head(d)[1])
           \o MarkerPathsOfItems(Tail(d), path)
MarkerPathsOfElems(l, i, path) ==
    IF i >= Len(l) THEN <<>>
    ELSE PathsAt(l[i + 1], path \o <<"[">> \o IntToStr(i) \o <<"]">>)
           \o MarkerPathsOfElems(l, i + 1, path)
MarkerPaths(x, path) ==
    CASE TypeOf(x) = "map"  -> MarkerPathsOfItems(ValOf(x), path)
      [] TypeOf(x) = "list" -> MarkerPathsOfElems(ValOf(x), 0, path)
      [] OTHER -> <<>>

\* a stripping call has returned and the caller holds the list of paths
StripDone == pc \in {"stripped", "processed", "restripped", "reprocessed"}

\* C15: after stripping, missing_paths has exactly one entry for each marker leaf of
\* the original record (map values and sequence elements at any depth) and no other,
\* the cleaned record has no marker leaf at any depth, and every other leaf and every
\* container of the original is still in the cleaned record.
C15_StripRemovesExactlyTheMarkers ==
    StripDone =>
        /\ ValOf(missing_fields) = MarkerPaths(loaded, <<>>)
        /\ MarkerPaths(processed_ground_truth, <<>>) = <<>>
        /\ processed_ground_truth = WithoutMarkers(loaded)
C15_Witness ==
    /\ pc = "processed"
    /\ Len(ValOf(missing_fields)) >= 3
    /\ \E i \in 1..Len(ValOf(loaded)) :
         /\ TypeOf(ValOf(loaded)[i][2]) = "list"
         /\ \E n \in 1..Len(ValOf(ValOf(loaded)[i][2])) :
              IsContainer(ValOf(ValOf(loaded)[i][2])[n])

MarkerIndices(l) == {i \in 0..(Len(l) - 1) : EqMarker(l[i + 1])}
ElemPath(key, i) == key \o <<"[">> \o IntToStr(i) \o <<"]">>

C17_StripIdempotent ==
    /\ StripDone /\ MarkerPaths(loaded, <<>>) = <<>> =>
          processed_ground_truth = loaded /\ ValOf(missing_fields) = <<>>
    /\ pc \in {"restripped", "reprocessed"} =>
          processed_ground_truth = loaded /\ ValOf(missing_fields) = <<>>
C17_Witness ==
    /\ pc = "reprocessed"
    /\ processed_ground_truth = loaded
    /\ \E i \in 1..Len(ValOf(loaded)) : ValOf(loaded)[i][2] = ListV(<<SA>>)

OracleFailed(o) == o.kind # "text"
SomeCallFailed == \E i \in 1..Len(oracle) : OracleFailed(oracle[i])
FailuresAsNo == [i \in 1..Len(oracle) |-> IF OracleFailed(oracle[i]) THEN No ELSE oracle[i]]
OracleConsulted(r) == compare_values(r.ground_truth, r.extracted, No).asked

CompareResults(x, y) ==
    {compare_values(x, y, o).res : o \in {oracle[i] : i \in 1..Len(oracle)} \cup {No}}
PresentRule ==
    \A i \in 1..Len(FlatTruth) :
        LET field == FlatTruth[i][1]
            truth_value == FlatTruth[i][2]
        IN /\ DictHas(Results, field)
           /\ LET r == DictGet(Results, field)
              IN IF DictHas(FlatExtracted, field)
                 THEN /\ r.category = "present"
                      /\ r.ground_truth = truth_value
                      /\ r.extracted = DictGet(FlatExtracted, field)
                      /\ r.match \in CompareResults(truth_value, r.extracted)
                      /\ r.error = NoError
                 ELSE /\ r.category = "present"
                      /\ r.ground_truth = truth_value
                      /\ r.extracted = NullV
                      /\ ~r.match
                      /\ r.error = "missing_field"

\* C21: every path of the ground-truth flat map has a result of category present: with
\* match = compare(ground-truth value, extracted value) and no error tag when the path
\* is in the extracted flat map; with extracted = null, match = false and the error
\* tag missing_field when it is not.
C21_PresentRuleForEveryPair == Evaluated => evaluation.status = "returned" /\ PresentRule

\* what remains of C21 where _compare_values does not raise
C21_PresentRuleWhenReturned == EvalReturned => PresentRule

\* other lists of paths the reconciler could be handed
OtherMissingPaths == {<<>>, <<ka>>, <<kb, ka>>, <<kphone, kname, kincome>>}
SameScoring(m1, m2) ==
    /\ m1.status = m2.status
    /\ m1.status = "returned" =>
         /\ m1.true_positives = m2.true_positives
         /\ m1.false_positives = m2.false_positives
         /\ m1.false_negatives = m2.false_negatives
         /\ m1.precision = m2.precision
         /\ m1.recall = m2.recall
         /\ m1.f1_score = m2.f1_score
         /\ m1.overall_accuracy = m2.overall_accuracy
         /\ m1.total_fields = m2.total_fields
         /\ m1.categories = m2.categories

\* C27: missing_paths does not influence the scoring: for the same two records and
\* the same oracle answers, a reconciliation with any other missing_paths has the same
\* field results, counters, ratios and category breakdown; only missing_fields_count
\* (the length of the list) and the echoed list differ.
C27_MissingPathsDoNotScore ==
    Evaluated =>
        \A paths \in OtherMissingPaths :
            LET other == evaluate_data(processed_ground_truth, extracted, paths, oracle)
            IN /\ other.status = evaluation.status
               /\ other.field_results = evaluation.field_results
               /\ other.asked = evaluation.asked
               /\ evaluation.status = "returned" =>
                    /\ SameScoring(other.metrics, evaluation.metrics)
                    /\ other.metrics.missing_fields_count = Len(paths)
                    /\ other.missing_fields = paths
                    /\ evaluation.metrics.missing_fields_count = Len(ValOf(missing_fields))
                    /\ evaluation.missing_fields = ValOf(missing_fields)
C27_Witness ==
    /\ EvalReturned
    /\ Len(ValOf(missing_fields)) = 1
    /\ evaluation.metrics.true_positives = 1
    /\ evaluation.metrics.false_positives = 1
    /\ evaluation.metrics.missing_fields_count = 1

CountingHolds ==
    /\ evaluation.metrics.true_positives + evaluation.metrics.false_positives
         + evaluation.metrics.false_negatives + CountResults(IsMissing)
         = evaluation.metrics.total_fields
    /\ evaluation.metrics.total_fields
         = Cardinality(DictKeys(FlatTruth) \cup DictKeys(FlatExtracted))
    /\ \A i \in 1..Len(Results) :
         /\ IsMissing(Results[i][2]) => Results[i][2].match
         /\ IsExtra(Results[i][2]) => ~Results[i][2].match
    /\ evaluation.metrics.categories["missing"].total > 0 =>
         evaluation.metrics.categories["missing"].accuracy = Rat(1, 1)
    /\ evaluation.metrics.categories["extra"].accuracy = Zero

\* C28: for every pair of records, true_positives + false_positives +
\* false_negatives + the number of missing-category results = total_fields = the
\* number of paths in the union of both flat maps; missing results have match = true
\* and extra results match = false, so the accuracy of category missing is 1 when it
\* has results and that of category extra is 0.
C28_CountingForEveryPair == Evaluated => evaluation.status = "returned" /\ CountingHolds

\* what remains of C28 where _compare_values does not raise
C28_CountingWhenReturned == EvalReturned => CountingHolds

\* C29: the two strippers agree: ConversationGenerator.process_ground_truth and
\* Evaluator._find_missing_fields, as Evaluator.generate calls it, give the same
\* cleaned record and the same missing_paths in the same order.
C29_StrippersAgree ==
    /\ pc = "stripped" =>
         LET r == process_ground_truth(loaded)
         IN r.processed_gt = processed_ground_truth
              /\ r.missing_fields = ValOf(missing_fields)
    /\ pc = "processed" =>
         LET c == find_missing_fields_call(loaded, ListV(<<>>))
         IN c.returned = processed_ground_truth /\ c.list = missing_fields
C29_Witness ==
    /\ pc = "processed"
    /\ loaded = RecordOf(ListV(<<SM, MapV(<< <<kb, SM>> >>)>>), SM)
    /\ ValOf(missing_fields) =
         << <<"a","[","0","]">>, <<"a","[","1","]",".","b">>, <<"b">> >>

---------------------------------------------------------------------------
(* Evaluator._compare_values as a function of its arguments: SpecCompare   *)

LongText ==
    StrV(<<"a","b","c"," ","d","e","f"," ","g","h","i"," ","j","k","l"," ",
           "m","n","o"," ","p","q","r","s">>)
CompareValues ==
    {NullV, SM, SMD, SA, SB, SD, StrV(<<"a","b">>), StrV(<<"c","d">>), LongText,
     N5, NumV(0), BoolV(TRUE), BoolV(FALSE), ListV(<<SM>>), ListV(<<SA>>)}

InitCompare ==
    /\ pc = "compare"
    /\ IdleOthers
    /\ value1 \in CompareValues
    /\ value2 \in CompareValues
    /\ oracle \in {<<r>> : r \in Responses}
    /\ compared = NoComparison
    /\ IdleEvaluator
    /\ IdleAggregator

\* one call _compare_values(value1, value2)
Compare ==
    /\ pc = "compare"
    /\ compared' = compare_values(value1, value2, oracle[1])
    /\ pc' = "compared"
    /\ UNCHANGED <<ground_truth, extracted, missing_fields, processed_ground_truth, aliased,
                   evaluation, loaded, value1, value2, oracle, conversations, aggregated>>
    /\ UNCHANGED otherVars

NextCompare == Compare

SpecCompare == InitCompare /\ [][NextCompare]_vars

IsScalar(x) == TypeOf(x) \in {"str", "num", "bool"}
HasMarker(x) == Contains(PyStr(x), MISSING_FIELD)

\* C4: for every pair of non-null scalars (strings, numbers, booleans) compare returns
\* a boolean without raising, and when the string form of either contains the marker
\* the result is true iff both string forms contain it.
C4_CompareTotalOnScalars ==
    pc = "compared" /\ IsScalar(value1) /\ IsScalar(value2) =>
        /\ compared.status = "returned"
        /\ HasMarker(value1) \/ HasMarker(value2) =>
              (compared.res <=> HasMarker(value1) /\ HasMarker(value2))

\* what remains of C4 on strings
C4_MarkerRuleOnStrings ==
    pc = "compared" /\ TypeOf(value1) = "str" /\ TypeOf(value2) = "str" =>
        /\ compared.status = "returned"
        /\ HasMarker(value1) \/ HasMarker(value2) =>
              (compared.res <=> HasMarker(value1) /\ HasMarker(value2))

Normalized(x) == Strip(Lower(PyStr(x)))
ShortCircuited(x, y) ==
    \/ Abs(Len(Normalized(x)) - Len(Normalized(y))) > 20
    \/ Min(Len(Normalized(x)), Len(Normalized(y))) < 3
IsPlainString(x) == TypeOf(x) = "str" /\ ~Contains(ValOf(x), MISSING_FIELD)

\* C18: compare(null, null) is true; compare(null, x) and compare(x, null) are false
\* for every non-null x; compare(MARKER, MARKER) is true; compare(MARKER, s) and
\* compare(s, MARKER) are false for every string s without the marker; the oracle is
\* invoked in none of these cases.
C18_NullAndMarkerRules ==
    pc = "compared" =>
        /\ value1 = NullV /\ value2 = NullV => compared = Returned(TRUE, FALSE)
        /\ (value1 = NullV) # (value2 = NullV) => compared = Returned(FALSE, FALSE)
        /\ value1 = SM /\ value2 = SM => compared = Returned(TRUE, FALSE)
        /\ \/ value1 = SM /\ IsPlainString(value2)
           \/ IsPlainString(value1) /\ value2 = SM
           => compared = Returned(FALSE, FALSE)
C18_Witness ==
    /\ pc = "compared"
    /\ value1 = SM /\ value2 = SD
    /\ oracle = <<Yes>>
    /\ compared = Returned(FALSE, FALSE)

\* C19: when the two normalized strings differ and their lengths differ by more than
\* 20 or the shorter has fewer than 3 characters, compare returns false and the
\* oracle is not invoked.
C19_ShortCircuitOnScalars ==
    pc = "compared" /\ IsScalar(value1) /\ IsScalar(value2)
      /\ ~HasMarker(value1) /\ ~HasMarker(value2)
      /\ Normalized(value1) # Normalized(value2) /\ ShortCircuited(value1, value2) =>
        compared = Returned(FALSE, FALSE)

\* what remains of C19 where the marker test of lines 294-296 does not raise
C19_ShortCircuitOnStrings ==
    pc = "compared" /\ IsPlainString(value1) /\ IsPlainString(value2)
      /\ Normalized(value1) # Normalized(value2) /\ ShortCircuited(value1, value2) =>
        compared = Returned(FALSE, FALSE)

\* C25: two non-null values without the marker whose string forms are equal after
\* lower() and strip() compare true with no call of the oracle; the oracle is asked
\* only after this exact test has failed.
C25_ExactTierFirst ==
    pc = "compared" =>
        /\ value1 # NullV /\ value2 # NullV /\ ~HasMarker(value1) /\ ~HasMarker(value2)
             /\ Normalized(value1) = Normalized(value2) => compared = Returned(TRUE, FALSE)
        /\ compared.asked => Normalized(value1) # Normalized(value2)

\* what remains of C25 where the marker test of lines 294-296 does not raise
C25_ExactTierFirstOnStrings ==
    pc = "compared" =>
        /\ IsPlainString(value1) /\ IsPlainString(value2)
             /\ Normalized(value1) = Normalized(value2) => compared = Returned(TRUE, FALSE)
        /\ compared.asked => Normalized(value1) # Normalized(value2)

\* C26: compare(a, b) = compare(b, a) wherever the result is decided without the
\* oracle (null rule, marker rule, exact test, length short-circuit), and on all
\* inputs when the oracle gives both orders the same answer.
C26_Symmetric ==
    pc = "compared" =>
        /\ compared.status = "returned" /\ ~compared.asked =>
              \A o \in Responses : compare_values(value2, value1, o) = compared
        /\ compare_values(value2, value1, oracle[1]) = compared
C26_Witness ==
    /\ pc = "compared"
    /\ value1 = LongText /\ value2 = SA
    /\ oracle = <<Yes>>
    /\ compared = Returned(FALSE, FALSE)

---------------------------------------------------------------------------
(* EvaluationAggregator.generate, lines 401-459                            *)
(*                                                                         *)
(* `conversations` holds, for each directory list_conversations() returns, *)
(* the state of its evaluation file: absent, not parseable, or the JSON    *)
(* value in it.  A metric is FloatV(q), q a rational.                      *)

FloatV(q) == <<"float", q>>

FileAbsent  == [kind |-> "absent",  value |-> NullV]    \* FileNotFoundError
FileCorrupt == [kind |-> "corrupt", value |-> NullV]    \* json.JSONDecodeError
FileJson(x) == [kind |-> "json",    value |-> x]

MetricKeys == <<"overall_accuracy", "precision", "recall", "f1_score">>

\* lines 417-422
ZeroSums == [i \in 1..4 |-> <<MetricKeys[i], Zero>>]

\* Python truthiness of a JSON value (line 433)
Truthy(x) ==
    CASE TypeOf(x) \in {"map", "list", "str"} -> ValOf(x) # <<>>
      [] TypeOf(x) = "float" -> ValOf(x) # Zero
      [] TypeOf(x) = "num"   -> ValOf(x) # 0
      [] TypeOf(x) = "bool"  -> ValOf(x)
      [] OTHER         -> FALSE

\* the four keys as Python strings, for `key in metrics` on a str or a list
MetricKeyChars ==
    << <<"o","v","e","r","a","l","l","_","a","c","c","u","r","a","c","y">>,
       <<"p","r","e","c","i","s","i","o","n">>,
       <<"r","e","c","a","l","l">>,
       <<"f","1","_","s","c","o","r","e">> >>

\* line 438, `key in metrics` for the k-th key: key of a dict, substring of a str,
\* element of a list (any other truthy value raises TypeError, see add_metrics)
KeyIn(metrics, k) ==
    CASE TypeOf(metrics) = "map"  -> DictHas(ValOf(metrics), MetricKeys[k])
      [] TypeOf(metrics) = "str"  -> Contains(ValOf(metrics), MetricKeyChars[k])
      [] TypeOf(metrics) = "list" ->
             \E i \in 1..Len(ValOf(metrics)) : ValOf(metrics)[i] = StrV(MetricKeyChars[k])
      [] OTHER -> FALSE

\* the operands `metrics_sum[key] += x` accepts: float, int and bool
IsNumber(x) == TypeOf(x) \in {"float", "num", "bool"}
NumberOf(x) ==
    CASE TypeOf(x) = "float" -> ValOf(x)
      [] TypeOf(x) = "num"   -> Rat(ValOf(x), 1)
      [] TypeOf(x) = "bool"  -> IF ValOf(x) THEN Rat(1, 1) ELSE Zero

\* lines 437-439, the loop over metrics_sum.keys() from key k on: the sums, or the
\* exception of `key in metrics` or of `metrics_sum[key] += metrics[key]`
RECURSIVE add_metrics(_, _, _)
add_metrics(sums, metrics, k) ==
    IF k > Len(MetricKeys) THEN [status |-> "ok", sums |-> sums]
    ELSE IF TypeOf(metrics) \notin {"map", "str", "list"}         \* `in` on a number
    THEN [status |-> "TypeError", sums |-> sums]
    ELSE IF ~KeyIn(metrics, k)
    THEN add_metrics(sums, metrics, k + 1)
    ELSE IF TypeOf(metrics) # "map"                               \* metrics[key], str or list
    THEN [status |-> "TypeError", sums |-> sums]
    ELSE LET key == MetricKeys[k]
             x == DictGet(ValOf(metrics), key)
         IN IF ~IsNumber(x)
            THEN [status |-> "TypeError", sums |-> sums]
            ELSE add_metrics(DictSet(sums, key, RatAdd(DictGet(sums, key), NumberOf(x))),
                             metrics, k + 1)

\* lines 425-442, the loop over conversations from item i on
RECURSIVE aggregate_loop(_, _, _, _)
aggregate_loop(convs, i, total_conversations, metrics_sum) ==
    IF i > Len(convs)
    THEN [status |-> "ok", total |-> total_conversations, sums |-> metrics_sum]
    ELSE LET file == convs[i]
         IN IF file.kind \in {"absent", "corrupt"}      \* caught at line 441
            THEN aggregate_loop(convs, i + 1, total_conversations, metrics_sum)
            ELSE IF TypeOf(file.value) # "map"                \* evaluation.get: AttributeError
            THEN [status |-> "AttributeError", total |-> total_conversations,
                  sums |-> metrics_sum]
            ELSE LET metrics == IF DictHas(ValOf(file.value), "metrics")
                                THEN DictGet(ValOf(file.value), "metrics")
                                ELSE MapV(<<>>)
                 IN IF ~Truthy(metrics)
                    THEN aggregate_loop(convs, i + 1, total_conversations, metrics_sum)
                    ELSE LET a == add_metrics(metrics_sum, metrics, 1)
                         IN IF a.status # "ok"
                            THEN [status |-> a.status, total |-> total_conversations + 1,
                                  sums |-> a.sums]
                            ELSE aggregate_loop(convs, i + 1, total_conversations + 1,
                                                a.sums)

\* line 413: a bare `return`
ReturnsNone ==
    [status |-> "returned", value |-> "None", total_conversations |-> 0,
     aggregated_metrics |-> <<>>]

\* line 448: value / total_conversations
Average(value, total_conversations) == RatDiv(value, Rat(total_conversations, 1))

\* lines 410-459
aggregator_generate(convs) ==
    IF convs = <<>> THEN ReturnsNone
    ELSE LET l == aggregate_loop(convs, 1, 0, ZeroSums)
         IN IF l.status # "ok"
            THEN [status |-> l.status, value |-> "raised", total_conversations |-> 0,
                  aggregated_metrics |-> <<>>]
            ELSE [status |-> "returned", value |-> "object",
                  total_conversations |-> l.total,
                  aggregated_metrics |->
                      IF l.total > 0
                      THEN [i \in 1..4 |-> <<l.sums[i][1], Average(l.sums[i][2], l.total)>>]
                      ELSE <<>>]

MaxRuns == 3       \* most conversation directories of an experiment

Half == Rat(1, 2)
One == Rat(1, 1)
MetricsOf(acc, p, r, f) ==
    MapV(<< <<"overall_accuracy", FloatV(acc)>>, <<"precision", FloatV(p)>>,
            <<"recall", FloatV(r)>>, <<"f1_score", FloatV(f)>> >>)
EvaluationOf(metrics) == FileJson(MapV(<< <<"metrics", metrics>>, <<"field_results", MapV(<<>>)>> >>))

EvaluationFiles ==
    { FileAbsent,
      FileCorrupt,
      FileJson(ListV(<<>>)),                                   \* JSON, not an object
      FileJson(MapV(<<>>)),                                    \* no "metrics" key
      EvaluationOf(MapV(<<>>)),                                \* empty metrics
      EvaluationOf(MetricsOf(Half, Half, One, Rat(2, 3))),
      EvaluationOf(MetricsOf(One, One, One, One)),
      EvaluationOf(MapV(<< <<"precision", FloatV(One)>> >>)),  \* keys lacking
      EvaluationOf(MapV(<< <<"precision", SA>> >>)),           \* a metric that is no number
      EvaluationOf(MapV(<< <<"recall", NumV(1)>> >>)),         \* a metric written as 1
      EvaluationOf(ListV(<<SA>>)),                             \* metrics: a list
      EvaluationOf(N5) }                                       \* metrics: a number

InitAggregate ==
    /\ pc = "aggregate"
    /\ IdleOthers
    /\ conversations \in SeqsUpTo(EvaluationFiles, MaxRuns)
    /\ aggregated = NoAggregate
    /\ oracle = <<>>
    /\ IdleEvaluator
    /\ IdleCompare

\* one call EvaluationAggregator.generate()
Aggregate ==
    /\ pc = "aggregate"
    /\ aggregated' = aggregator_generate(conversations)
    /\ pc' = "aggregated"
    /\ UNCHANGED <<ground_truth, extracted, missing_fields, processed_ground_truth, aliased,
                   evaluation, loaded, value1, value2, oracle, compared, conversations>>
    /\ UNCHANGED otherVars

NextAggregate == Aggregate

SpecAggregate == InitAggregate /\ [][NextAggregate]_vars

\* the runs whose metrics are loaded and counted
Counted(file) ==
    /\ file.kind = "json" /\ TypeOf(file.value) = "map"
    /\ DictHas(ValOf(file.value), "metrics")
    /\ Truthy(DictGet(ValOf(file.value), "metrics"))
NoRunLoads == \A i \in 1..Len(conversations) : conversations[i].kind \in {"absent", "corrupt"}

\* C10: when no run is loaded, with no conversation at all or with every evaluation
\* failing to load, the aggregator returns a result object with total_conversations = 0
\* and an empty aggregated_metrics mapping.
C10_NoRunsGivesEmptyResult ==
    pc = "aggregated" /\ NoRunLoads =>
        /\ aggregated.status = "returned"
        /\ aggregated.value = "object"
        /\ aggregated.total_conversations = 0
        /\ aggregated.aggregated_metrics = <<>>

\* what remains of C10 when the experiment has at least one conversation directory
C10_AllRunsFailGivesEmptyResult ==
    pc = "aggregated" /\ NoRunLoads /\ conversations # <<>> =>
        /\ aggregated.status = "returned"
        /\ aggregated.value = "object"
        /\ aggregated.total_conversations = 0
        /\ aggregated.aggregated_metrics = <<>>

\* the runs counted in total_conversations, and the value a counted run adds to the
\* sum of a metric (nothing when its mapping lacks the key)
CountedRuns == {i \in 1..Len(conversations) : Counted(conversations[i])}
FailedLoads == {i \in 1..Len(conversations) : conversations[i].kind \in {"absent", "corrupt"}}
MetricsAt(i) == DictGet(ValOf(conversations[i].value), "metrics")
HasMetric(i, k) ==
    /\ i \in CountedRuns
    /\ TypeOf(MetricsAt(i)) = "map"
    /\ DictHas(ValOf(MetricsAt(i)), MetricKeys[k])
    /\ IsNumber(DictGet(ValOf(MetricsAt(i)), MetricKeys[k]))
MetricAt(i, k) == NumberOf(DictGet(ValOf(MetricsAt(i)), MetricKeys[k]))
RECURSIVE SumOfMetric(_, _)
SumOfMetric(k, i) ==
    IF i = 0 THEN Zero
    ELSE RatAdd(SumOfMetric(k, i - 1), IF HasMetric(i, k) THEN MetricAt(i, k) ELSE Zero)
MeansOverCounted ==
    /\ aggregated.total_conversations = Cardinality(CountedRuns)
    /\ IF CountedRuns = {}
       THEN aggregated.aggregated_metrics = <<>>
       ELSE /\ Len(aggregated.aggregated_metrics) = Len(MetricKeys)
            /\ \A k \in 1..Len(MetricKeys) :
                 /\ aggregated.aggregated_metrics[k][1] = MetricKeys[k]
                 /\ RatMul(aggregated.aggregated_metrics[k][2],
                           Rat(Cardinality(CountedRuns), 1))
                      = SumOfMetric(k, Len(conversations))

\* C11: when the evaluation of some run is absent or not parseable, the aggregator
\* skips that run, goes on with the later runs and returns a result whose
\* total_conversations is the number of runs whose metrics were loaded, with the sums
\* and averages taken over those runs only.
C11_SkipsFailedLoads ==
    pc = "aggregated" /\ FailedLoads # {} =>
        /\ aggregated.status = "returned"
        /\ aggregated.value = "object"
        /\ MeansOverCounted

\* what remains of C11 where no other run makes the pass raise
C11_SkipsFailedLoadsWhenReturned ==
    pc = "aggregated" /\ FailedLoads # {} /\ aggregated.status = "returned" =>
        aggregated.value = "object" /\ MeansOverCounted

\* C12: aggregation over a non-empty list of runs returns an aggregate result whatever
\* the evaluation artifact of any single run holds; no bad run ends the pass with an
\* exception.
C12_NoRunAbortsThePass ==
    pc = "aggregated" /\ conversations # <<>> =>
        aggregated.status = "returned" /\ aggregated.value = "object"

\* C13: with N > 0 loaded runs, each of the four aggregated metrics is the mean of
\* that metric over exactly the N counted runs, each metric on its own, also when a
\* counted run's mapping lacks one of the keys.
C13_MeanOfMeans ==
    pc = "aggregated" /\ CountedRuns # {} =>
        /\ aggregated.status = "returned"
        /\ aggregated.value = "object"
        /\ MeansOverCounted

\* what remains of C13 where no run makes the pass raise
C13_MeanOfMeansWhenReturned ==
    pc = "aggregated" /\ CountedRuns # {} /\ aggregated.status = "returned" =>
        aggregated.value = "object" /\ MeansOverCounted

---------------------------------------------------------------------------
(* Evaluator._flatten_dict as a function of its argument: SpecFlatten      *)

MaxKeys == 2       \* most keys of the record at the root

kab    == <<"a",".","b">>      \* a key with the separator in it
kempty == <<>>                 \* the empty key
FlatKeys == {ka, kb, kab, kempty}
FlatValues == {SA, SD} \cup {MapV(<< <<k, x>> >>) : k \in FlatKeys, x \in {SA, SD}}
FlatRecords ==
    {MapV(d) : d \in {e \in SeqsUpTo(FlatKeys \X FlatValues, MaxKeys) :
                          \A i, j \in 1..Len(e) : e[i][1] = e[j][1] => i = j}}

InitFlatten ==
    /\ pc = "flatten"
    /\ record \in FlatRecords
    /\ flattened = <<>>
    /\ oracle = <<>>
    /\ IdleEvaluator
    /\ IdleCompare
    /\ IdleAggregator
    /\ IdlePaths
    /\ IdleMain

\* one call _flatten_dict(record)
Flatten ==
    /\ pc = "flatten"
    /\ flattened' = flatten_dict(ValOf(record), <<>>)
    /\ pc' = "flattened"
    /\ UNCHANGED <<ground_truth, extracted, missing_fields, processed_ground_truth, aliased,
                   evaluation, loaded, value1, value2, oracle, compared, conversations,
                   aggregated, record, pathVars, mainVars>>

NextFlatten == Flatten

SpecFlatten == InitFlatten /\ [][NextFlatten]_vars

\* Python's path.split("."): the pieces between the separators, at least one
RECURSIVE SplitOnDot(_)
SplitOnDot(s) ==
    IF \A i \in 1..Len(s) : s[i] # "."
    THEN <<s>>
    ELSE LET i == CHOOSE n \in 1..Len(s) : s[n] = "." /\ \A m \in 1..(n - 1) : s[m] # "."
         IN <<SubSeq(s, 1, i - 1)>> \o SplitOnDot(SubSeq(s, i + 1, Len(s)))

\* the leaves of a record of maps and scalars, each with the chain of keys leading to it
RECURSIVE LeavesOfItems(_, _)
LeavesOfItems(d, chain) ==
    IF d = <<>> THEN <<>>
    ELSE (IF TypeOf(Head(d)[2]) = "map"
          THEN LeavesOfItems(ValOf(Head(d)[2]), Append(chain, Head(d)[1]))
          ELSE << <<Append(chain, Head(d)[1]), Head(d)[2]>> >>)
           \o LeavesOfItems(Tail(d), chain)
Leaves == LeavesOfItems(ValOf(record), <<>>)
PathsGiveKeyChains ==
    /\ Len(flattened) = Len(Leaves)
    /\ {<<SplitOnDot(flattened[i][1]), flattened[i][2]>> : i \in 1..Len(flattened)}
         = {Leaves[i] : i \in 1..Len(Leaves)}
IsPlainKey(k) == k # <<>> /\ \A i \in 1..Len(k) : k[i] # "."
RECURSIVE PlainKeys(_)
PlainKeys(x) ==
    TypeOf(x) = "map" =>
        \A i \in 1..Len(ValOf(x)) : IsPlainKey(ValOf(x)[i][1]) /\ PlainKeys(ValOf(x)[i][2])

\* C22: for a record of maps and scalars, splitting each flattened path on "." gives
\* the chain of keys from the root to that leaf, so that flatten has one entry per leaf
\* and distinct leaves have distinct paths; for all string keys, those with "." too.
C22_PathsSplitIntoKeyChains == pc = "flattened" => PathsGiveKeyChains

\* what remains of C22 for keys that are not empty and have no "." in them
C22_PlainKeysSplitIntoKeyChains == pc = "flattened" /\ PlainKeys(record) => PathsGiveKeyChains

---------------------------------------------------------------------------
(* ExperimentPathManager: the conversation directories of one experiment,  *)
(* used by several path managers: SpecPaths.  A conversation name is       *)
(* modelled by its number n, for "conversation_<n>".                       *)
---------------------------------------------------------------------------
MaxConversations == 3
MaxClock == 1

\* lines 98-117: the names in the experiment directory that match conversation_\d+
\* (a backup directory does not match); only their number is used here
list_conversations == conversation_dirs

\* lines 63-72: the name set_next_conversation selects
set_next_conversation == Cardinality(list_conversations) + 1

\* lines 46-51, the property: a manager without a name takes the next one
conversation_name_of(m) ==
    IF conversation_name[m] = NoName THEN set_next_conversation ELSE conversation_name[m]

PathsEvaluatorIdle ==
    /\ IdleEvaluator /\ IdleCompare /\ IdleAggregator /\ IdleFlattener
    /\ oracle = <<>>

InitPaths ==
    /\ pc = "paths"
    /\ PathsEvaluatorIdle
    /\ IdlePaths
    /\ IdleMain

UnchangedByPaths ==
    UNCHANGED <<pc, ground_truth, extracted, missing_fields, processed_ground_truth, aliased,
                evaluation, loaded, value1, value2, oracle, compared, conversations,
                aggregated, flattenVars, mainVars>>

\* lines 374-387: set_next_conversation, then get_conversation_dir, which makes the
\* directory with exist_ok=True
create_conversation(m) ==
    LET name == set_next_conversation
    IN /\ conversation_name' = [conversation_name EXCEPT ![m] = name]
       /\ conversation_dirs' = conversation_dirs \cup {name}
       /\ outcome' = [op |-> "create_conversation", value |-> name]

CreateConversation(m) ==
    /\ pc = "paths"
    /\ Cardinality(conversation_dirs) < MaxConversations
    /\ create_conversation(m)
    /\ UNCHANGED <<backup_dirs, clock>>
    /\ UnchangedByPaths

\* lines 389-414
DeleteConversation(m, backup) ==
    /\ pc = "paths"
    /\ LET name == conversation_name_of(m)
       IN /\ conversation_name' = [conversation_name EXCEPT ![m] = name]
          /\ IF name \notin conversation_dirs
             THEN /\ outcome' = [op |-> "delete_conversation", value |-> "False"]
                  /\ UNCHANGED <<conversation_dirs, backup_dirs>>
             ELSE IF backup /\ <<name, clock>> \in backup_dirs
             THEN \* shutil.copytree onto an existing directory
                  /\ outcome' = [op |-> "delete_conversation", value |-> "FileExistsError"]
                  /\ UNCHANGED <<conversation_dirs, backup_dirs>>
             ELSE /\ backup_dirs' = IF backup THEN backup_dirs \cup {<<name, clock>>}
                                    ELSE backup_dirs
                  /\ conversation_dirs' = conversation_dirs \ {name}
                  /\ outcome' = [op |-> "delete_conversation", value |-> "True"]
    /\ UNCHANGED clock
    /\ UnchangedByPaths

\* a second passes
Tick ==
    /\ pc = "paths"
    /\ clock < MaxClock
    /\ clock' = clock + 1
    /\ UNCHANGED <<conversation_dirs, backup_dirs, conversation_name, outcome>>
    /\ UnchangedByPaths

NextPaths ==
    \/ \E m \in Managers : CreateConversation(m)
    \/ \E m \in Managers, backup \in BOOLEAN : DeleteConversation(m, backup)
    \/ Tick

SpecPaths == InitPaths /\ [][NextPaths]_vars

\* C24: after any sequence of create_conversation and delete_conversation on an
\* experiment, create_conversation selects a name that no existing conversation
\* directory of the experiment has.
C24_NextNameIsFree ==
    [][\A m \in Managers :
          CreateConversation(m) => conversation_name'[m] \notin conversation_dirs]_vars

---------------------------------------------------------------------------
(* main: create_template, setup_experiment and run_conversation_pipeline,  *)
(* with every create() of a generator split into its generate() and its    *)
(* save(): SpecMain.  The pipeline's path manager is manager 1.            *)
---------------------------------------------------------------------------
MaxNumConversations == 2
MaxExisting == 2

Pipeline == 1
OldValue == Value("old", 0, 0)
RaisedValue == Value("raised", 0, 0)
NoneValue == Value("None", 0, 0)

\* the path of a file of the results directory or of the experiment directory
GlobalFile(kind) == <<0, kind>>
\* the path of a file of conversation_<n>
ConversationFile(n, kind) == <<n, kind>>
Exists(path) == path \in DOMAIN files
Write(path, value) == [q \in DOMAIN files \cup {path} |-> IF q = path THEN value ELSE files[q]]

\* main.py lines 17-25
create_template == <<"TemplateGenerator", "TemplateShortener">>
\* main.py lines 28-35
setup_experiment == <<"SchemaGenerator">>
\* the body of the loop in the order ground truth, conversation, extraction,
\* evaluation swapped around the conversation
LoopBodyExtractingFirst ==
    <<"create_conversation", "ExampleFormGenerator", "DataExtractor",
      "ConversationGenerator", "Evaluator">>
\* main.py lines 45-68, one iteration of the loop
LoopBody ==
    <<"create_conversation", "ExampleFormGenerator", "ConversationGenerator",
      "DataExtractor", "Evaluator">>
RECURSIVE Repeat(_, _)
Repeat(body, n) == IF n = 0 THEN <<>> ELSE body \o Repeat(body, n - 1)
\* main.py lines 38-74
run_conversation_pipeline(num_conversations) ==
    Repeat(LoopBody, num_conversations) \o <<"EvaluationAggregator">>
\* main.py lines 77-93, with the two flags and the number of conversations as inputs
main(template_flag, schema_flag, num_conversations) ==
    (IF template_flag THEN create_template ELSE <<>>)
      \o (IF schema_flag THEN setup_experiment ELSE <<>>)
      \o run_conversation_pipeline(num_conversations)

\* the generators whose save() calls generate() itself: template_generator.py 67-69,
\* template_shortener.py 31-33, schema_generator.py 15-17
SavesByGenerating == {"TemplateGenerator", "TemplateShortener", "SchemaGenerator"}

\* the files generate() of a generator loads
InputsOf(gen) ==
    LET n == conversation_name_of(Pipeline)
    IN CASE gen = "TemplateGenerator" -> {}
         [] gen = "TemplateShortener" -> {GlobalFile("template")}
         [] gen = "SchemaGenerator" -> {GlobalFile("abridged_template")}
         [] gen = "ExampleFormGenerator" -> {GlobalFile("schema")}
         [] gen = "ConversationGenerator" -> {ConversationFile(n, "ground_truth")}
         [] gen = "DataExtractor" ->
              {GlobalFile("schema"), ConversationFile(n, "generated_conversation")}
         [] gen = "Evaluator" ->
              {ConversationFile(n, "ground_truth"), ConversationFile(n, "extracted")}
         [] OTHER -> {}

\* the file save() of a generator writes
OutputOf(gen) ==
    LET n == conversation_name_of(Pipeline)
    IN CASE gen = "TemplateGenerator" -> GlobalFile("template")
         [] gen = "TemplateShortener" -> GlobalFile("abridged_template")
         [] gen = "SchemaGenerator" -> GlobalFile("schema")
         [] gen = "ExampleFormGenerator" -> ConversationFile(n, "ground_truth")
         [] gen = "ConversationGenerator" -> ConversationFile(n, "generated_conversation")
         [] gen = "DataExtractor" -> ConversationFile(n, "extracted")
         [] gen = "Evaluator" -> ConversationFile(n, "evaluation")
         [] OTHER -> GlobalFile("aggregated_results")

\* what generate() returns as its call number `call`: the schema is computed from the
\* abridged template alone (schema_generator.py 9-13), the aggregate is None without
\* conversations (evaluation_generator.py 410-413), every other value is new with
\* each call
generate(gen, call) ==
    CASE gen = "SchemaGenerator" ->
           Value(gen, 0, files[GlobalFile("abridged_template")].call)
      [] gen = "EvaluationAggregator" /\ list_conversations = {} -> NoneValue
      [] OTHER -> Value(gen, call, 0)

Event(op, gen, create, value) ==
    [op |-> op, gen |-> gen, iteration |-> iteration, create |-> create, value |-> value]

\* the experiment directory main is started on
ExistingConversations == SUBSET (1..MaxExisting)
ExistingFiles(dirs, installed) ==
    LET paths ==
          {ConversationFile(n, kind) :
              n \in dirs,
              kind \in {"ground_truth", "generated_conversation", "extracted", "evaluation"}}
            \cup (IF installed
                  THEN {GlobalFile("template"), GlobalFile("abridged_template"),
                        GlobalFile("schema")}
                  ELSE {})
    IN [q \in paths |-> OldValue]

InitMain ==
    /\ pc = "main"
    /\ PathsEvaluatorIdle
    /\ \E template_flag \in BOOLEAN, schema_flag \in BOOLEAN,
          num_conversations \in 0..MaxNumConversations :
           program = main(template_flag, schema_flag, num_conversations)
    /\ conversation_dirs \in ExistingConversations
    /\ \E installed \in BOOLEAN : files = ExistingFiles(conversation_dirs, installed)
    /\ backup_dirs = {}
    /\ clock = 0
    /\ conversation_name = [m \in Managers |-> NoName]
    /\ outcome = NoOutcome
    /\ iteration = 0
    /\ held = NotHeld
    /\ calls = 0
    /\ creates = 0
    /\ events = <<>>

UnchangedByMain ==
    UNCHANGED <<ground_truth, extracted, missing_fields, processed_ground_truth, aliased,
                evaluation, loaded, value1, value2, oracle, compared, conversations,
                aggregated, flattenVars, backup_dirs, clock>>

\* the rest of main once the call at the head of program has returned
Proceed ==
    /\ program' = Tail(program)
    /\ pc' = IF Tail(program) = <<>> THEN "finished" ELSE "main"

\* main.py line 46: path_manager.create_conversation()
NewConversation ==
    /\ pc = "main"
    /\ program # <<>> /\ Head(program) = "create_conversation"
    /\ create_conversation(Pipeline)
    /\ iteration' = iteration + 1
    /\ events' = Append(events,
                        [Event("create_conversation", "ExperimentPathManager", 0,
                               Value("conversation", set_next_conversation, 0))
                           EXCEPT !.iteration = iteration + 1])
    /\ Proceed
    /\ UNCHANGED <<held, files, calls, creates>>
    /\ UnchangedByMain

\* evaluation_generator.py 425-426: the aggregator sets the manager to each listed
\* conversation in turn (names below conversation_10 sort by their number)
LastListed(m) ==
    IF list_conversations = {} THEN conversation_name[m]
    ELSE CHOOSE n \in list_conversations : \A k \in list_conversations : k <= n

\* base.py 26-27, the first half of create(): generate().  The call loads its
\* inputs (FileNotFoundError if one is absent) and may raise for any other reason;
\* an exception leaves main.
Generate(ok) ==
    /\ pc = "main"
    /\ program # <<>> /\ Head(program) # "create_conversation"
    /\ held = NotHeld
    /\ LET gen == Head(program)
           loads == \A path \in InputsOf(gen) : Exists(path)
           value == IF loads /\ ok THEN generate(gen, calls + 1) ELSE RaisedValue
       IN /\ calls' = calls + 1
          /\ creates' = creates + 1
          /\ events' = Append(events, Event("generate", gen, creates + 1, value))
          /\ held' = IF value = RaisedValue THEN NotHeld ELSE value
          /\ pc' = IF value = RaisedValue THEN "raised" ELSE "main"
          /\ conversation_name' =
               IF gen = "EvaluationAggregator" /\ loads
               THEN [conversation_name EXCEPT ![Pipeline] = LastListed(Pipeline)]
               ELSE conversation_name
    /\ UNCHANGED <<program, iteration, files, conversation_dirs, outcome>>
    /\ UnchangedByMain

\* base.py 26-27, the second half of create(): save(value).  The save() of the
\* template, shortened-template and schema generators calls generate() itself and
\* writes what that call returns; every other save() writes its argument.
Save(ok) ==
    /\ pc = "main"
    /\ program # <<>> /\ Head(program) # "create_conversation"
    /\ held # NotHeld
    /\ LET gen == Head(program)
       IN IF gen \in SavesByGenerating
          THEN LET loads == \A path \in InputsOf(gen) : Exists(path)
                   value == IF loads /\ ok THEN generate(gen, calls + 1) ELSE RaisedValue
                   called == Append(events, Event("generate", gen, creates, value))
               IN /\ calls' = calls + 1
                  /\ IF value = RaisedValue
                     THEN /\ events' = called
                          /\ pc' = "raised"
                          /\ UNCHANGED <<files, program>>
                     ELSE /\ events' = Append(called, Event("save", gen, creates, value))
                          /\ files' = Write(OutputOf(gen), value)
                          /\ Proceed
          ELSE /\ ok
               /\ events' = Append(events, Event("save", gen, creates, held))
               /\ files' = Write(OutputOf(gen), held)
               /\ Proceed
               /\ UNCHANGED calls
    /\ held' = NotHeld
    /\ UNCHANGED <<iteration, creates, conversation_dirs, conversation_name, outcome>>
    /\ UnchangedByMain

NextMain ==
    \/ NewConversation
    \/ \E ok \in BOOLEAN : Generate(ok)
    \/ \E ok \in BOOLEAN : Save(ok)

SpecMain == InitMain /\ [][NextMain]_vars

Before(i, op, gen, k) ==
    \E j \in 1..(i - 1) :
        events[j].op = op /\ events[j].gen = gen /\ events[j].iteration = k
\* the stage whose artifact a stage of the loop is made from
StageBefore(gen) ==
    CASE gen = "ConversationGenerator" -> "ExampleFormGenerator"
      [] gen = "DataExtractor" -> "ConversationGenerator"
      [] gen = "Evaluator" -> "DataExtractor"
      [] OTHER -> "create_conversation"
Started(i) == events[i].op = "generate"

\* C23: in run_conversation_pipeline, for each conversation, ground-truth creation,
\* rendering, extraction and evaluation start in that order, each only after the
\* artifact of the stage before it has been saved; no stage of conversation k+1
\* starts before the evaluation of conversation k has been saved; the aggregation
\* starts only after the evaluation of the last conversation has been saved.
C23_StagesStrictlySequential ==
    \A i \in 1..Len(events) :
        LET e == events[i]
        IN /\ Started(i) /\ e.gen = "ExampleFormGenerator" =>
                Before(i, "create_conversation", "ExperimentPathManager", e.iteration)
           /\ Started(i) /\ e.gen \in {"ConversationGenerator", "DataExtractor", "Evaluator"} =>
                Before(i, "save", StageBefore(e.gen), e.iteration)
           /\ e.iteration > 1 /\ e.gen # "EvaluationAggregator" =>
                Before(i, "save", "Evaluator", e.iteration - 1)
           /\ Started(i) /\ e.gen = "EvaluationAggregator" =>
                /\ \A k \in 1..e.iteration : Before(i, "save", "Evaluator", k)
                /\ program = <<"EvaluationAggregator">> \/ pc # "main"
           /\ \A j \in 1..(i - 1) : events[j].iteration <= e.iteration
C23_Witness ==
    /\ pc = "finished"
    /\ iteration = 2
    /\ conversation_dirs = {1, 2}
    /\ \E i \in 1..Len(events) :
          events[i].op = "save" /\ events[i].gen = "EvaluationAggregator"

GenerateCallsOf(create) ==
    {j \in 1..Len(events) : events[j].op = "generate" /\ events[j].create = create}

\* C30: one create() of any generator calls that generator's generate() exactly
\* once and saves the value this one call returned.
C30_OneGenerateForOneSave ==
    \A i \in 1..Len(events) :
        events[i].op = "save" =>
            /\ Cardinality(GenerateCallsOf(events[i].create)) = 1
            /\ \A j \in GenerateCallsOf(events[i].create) : events[j].value = events[i].value

\* what remains of C30 for the generators of run_conversation_pipeline
C30_OneGenerateInThePipeline ==
    \A i \in 1..Len(events) :
        events[i].op = "save" /\ events[i].gen \notin SavesByGenerating =>
            /\ Cardinality(GenerateCallsOf(events[i].create)) = 1
            /\ \A j \in GenerateCallsOf(events[i].create) : events[j].value = events[i].value

============================================================================
